---- MODULE Spec2Model ----
(***************************************************************************)
(* Verification model of the FLTK Emscripten (wasm32) platform backend:    *)
(* the canvas 2D graphics driver (clip stack, path brackets, transform),   *)
(* the native file chooser (filter parsing, file handle table) and the     *)
(* screen driver (screen geometry, selection buffers, copy and paste).     *)
(***************************************************************************)
EXTENDS Integers, Sequences, FiniteSets, TLC

(***************************************************************************)
(* Bounds of the model                                                     *)
(***************************************************************************)
MaxClip == 2
MaxCoord == 1
MaxPath == 2
MaxFilterLen == 3
MaxOverrun == 2
MaxCopyLen == 2
MaxPixels == 2
MaxXid == 3
MaxDepth == 5
MaxFlushes == 2
MaxFamilies == 2
MaxFontCalls == 2
MaxTranslate == 2

\* Enumerations.H: FL_FREE_FONT
FL_FREE_FONT == 16

\* copy(): new char[len + 100]
Slack == 100

\* makeWindow(), fltk_em_track_div(): the height of the decoration
DecorHeight == 30

VARIABLES
  \* ---- graphics driver (Fl_Emscripten_Graphics_Driver.cxx) ----
  emclip_,      \* the driver's clip stack, bottom first; the last element is emclip_
  ctxt,         \* the canvas 2D context: saved-state stack, current state, current path
  what,         \* path mode: NONE, POINTS, LINE, LOOP, POLYGON
  gap_,         \* 1 when the next vertex starts a new sub-path
  m,            \* the driver's transformation matrix (Fl_Graphics_Driver::m)
  lastOp,       \* name of the operation that produced this state
  depth0,       \* canvas stack depth contributed by everything but the clip calls
  nc,           \* the last not_clipped query and its return value
  beginState    \* canvas depth and transform observed when begin_* was entered

VARIABLES
  \* ---- parse_filter (Fl_Emscripten_Native_File_Chooser.cxx) ----
  f,            \* the filter string handed to parse_filter (without its terminator)
  after,        \* the bytes that lie in memory behind the terminator of f
  p,            \* the read pointer, as an index into memory (f starts at 1)
  parsed,       \* the output string built so far
  pcF           \* position in parse_filter: "outer", "inner", "strip", "done"

VARIABLES
  \* ---- native file chooser ----
  hasPicker,    \* whether window.showOpenFilePicker exists
  filehandles,  \* the static vector of file handles
  chooser,      \* per chooser instance: _btype, files, and the handles it picked
  io            \* the last fl_read_to_string / fl_read_to_binary / fl_write_to_file

VARIABLES
  \* ---- screen driver (Fl_Emscripten_Screen_Driver.cxx) ----
  num_screens,  \* Fl_Screen_Driver::num_screens
  avail,        \* screen.availWidth and screen.availHeight of the browser
  out,          \* the caller's X, Y, W, H after the last geometry call
  sel,          \* fl_selection_buffer, fl_selection_length, fl_selection_buffer_length
  browserClip,  \* the text on the browser's clipboard
  e_text,       \* Fl::e_text
  e_length,     \* Fl::e_length
  pasteLog,     \* the FL_PASTE events the last paste() delivered to the receiver
  heapFault,    \* a store through a null or out-of-range pointer has happened
  lastCopy,     \* per selection buffer, the bytes of the most recent copy request
  scrOp         \* the screen driver call that ran last, with its arguments

VARIABLES
  \* ---- draw_fixed (Fl_Emscripten_Graphics_Driver.cxx) ----
  rgb,          \* the Fl_RGB_Image drawn: d(), data_w(), data_h(), array
  image_data,   \* the buffer the last draw_fixed handed to putImageData, if any
  imgOp         \* "none", or how the last draw_fixed ended

VARIABLES
  \* ---- event handlers (Fl_Emscripten_Window_Driver.cxx) ----
  e_state,      \* Fl::e_state
  e_keysym,     \* Fl::e_keysym
  e_clicks,     \* Fl::e_clicks
  e_is_click,   \* Fl::e_is_click
  e_xy,         \* Fl::e_x, Fl::e_y
  e_root,       \* Fl::e_x_root, Fl::e_y_root
  pxy,          \* the statics px, py
  e_d,          \* Fl::e_dx, Fl::e_dy
  dispatched,   \* the last call of Fl::handle made by a handler, and its browser event
  down,         \* the mouse buttons the user holds down
  streak,       \* clicks of the primary button made in quick succession
  held,         \* buttons with an FL_PUSH dispatched and no FL_RELEASE since
  pushes        \* per button, FL_PUSH events dispatched since its last FL_RELEASE

VARIABLES
  \* ---- window driver (Fl_Emscripten_Window_Driver.cxx) ----
  win,          \* per window: x(), y(), w(), h(), border(), visible(), xid (0: not shown)
  xlist,        \* the Fl_X list, first element first
  dom,          \* per id, the div "fltk_div<id>" with its canvas and decoration
  eventHandlers,\* the callbacks registered with emscripten_set_*_callback
  ID,           \* the static ID
  fl_window,    \* the global fl_window
  used,         \* the xids handed out so far
  wOp           \* the window driver call that ran last

VARIABLES
  \* ---- system driver (Fl_Emscripten_System_Driver.cxx) ----
  frames,       \* the activations of wait() and of the browser callbacks, innermost last
  flushes,      \* calls of Fl::flush() made by wait()
  sysOp         \* the step that ran last

VARIABLES
  \* ---- fonts (Fl_Emscripten_Graphics_Driver.cxx, set_fonts) ----
  browser,        \* window.queryLocalFonts, the local-fonts permission, the local fonts
  fl_fonts,       \* Fl::set_font's table: per Fl_Font, the name set (<<>>: none)
  built_in_table, \* the driver's vector of font names
  built_in_done,  \* init_built_in_fonts's static i has reached FL_FREE_FONT
  jobs,           \* promise reactions queued and not yet run
  fontOp          \* the last call of set_fonts: its result and what it saw

VARIABLES
  \* ---- image surface (Fl_Emscripten_Image_Surface_Driver.cxx) ----
  surface       \* the transforms in effect before each translate() not yet undone,
                \* and the one the last untranslate() had to bring back

gfxVars == <<emclip_, ctxt, what, gap_, m, lastOp, depth0, nc, beginState>>
filterVars == <<f, after, p, parsed, pcF>>
chooserVars == <<hasPicker, filehandles, chooser, io>>
geomVars == <<num_screens, avail, out>>
selVars == <<sel, browserClip, e_text, e_length, pasteLog, heapFault, lastCopy>>
screenVars == <<geomVars, selVars, scrOp>>

imgVars == <<rgb, image_data, imgOp>>

inputVars == <<e_state, e_keysym, e_clicks, e_is_click, e_xy, e_root, pxy, e_d,
               dispatched, down, streak, held, pushes>>

\* the parts outside the clip, path, chooser and screen models
winVars == <<win, xlist, dom, eventHandlers, ID, fl_window, used, wOp>>

waitVars == <<frames, flushes, sysOp>>

fontVars == <<browser, fl_fonts, built_in_table, built_in_done, jobs, fontOp>>

surfVars == <<surface>>

lateVars == <<imgVars, inputVars, winVars, waitVars, fontVars, surfVars>>

vars == <<gfxVars, filterVars, chooserVars, screenVars, lateVars>>

(***************************************************************************)
(* State of the parts after construction                                   *)
(***************************************************************************)
NUL == "NUL"
\* a char pointer: null, or pointing at bytes
NULL == [null |-> TRUE, bytes |-> <<>>]
Ptr(bytes) == [null |-> FALSE, bytes |-> bytes]
Choosers == {1, 2}
NoIo == [fn |-> "none", c |-> 0, i |-> 0, idx |-> -1]
NoCopy == [set |-> FALSE, bytes |-> <<>>]
Unassigned == -1

\* no parse_filter call is running
FilterIdle ==
  /\ f = <<>> /\ after = <<>> /\ p = 1 /\ parsed = <<>> /\ pcF = "done"

\* the static filehandles vector is empty; every chooser is constructed with
\* type BROWSE_FILE and has no files
ChooserInit ==
  /\ hasPicker = TRUE
  /\ filehandles = <<>>
  /\ chooser = [c \in Choosers |-> [btype |-> 0, files |-> <<>>, picked |-> <<>>]]
  /\ io = NoIo

\* the static selection arrays are zero-initialised (a buffer of capacity 0
\* is the null pointer)
SelInit ==
  /\ sel = [c \in {0, 1} |-> [buf |-> <<>>, len |-> 0, cap |-> 0]]
  /\ browserClip = <<>>
  /\ e_text = Ptr(<<>>)
  /\ e_length = 0
  /\ pasteLog = <<>>
  /\ heapFault = FALSE
  /\ lastCopy = [c \in {0, 1} |-> NoCopy]

\* no image has been drawn
NoImage == [d |-> 0, w |-> 0, h |-> 0, hasArray |-> FALSE, array |-> <<>>]
NoBuffer == [passed |-> FALSE, bytes |-> <<>>, w |-> 0, h |-> 0]
ImgIdle == rgb = NoImage /\ image_data = NoBuffer /\ imgOp = "none"

\* the mouse buttons of the browser's MouseEvent.button
Buttons == {0, 1, 2}
Origin == [x |-> 0, y |-> 0]
NoDispatch == [kind |-> "none", ev |-> "none"]

\* the event globals of Fl.cxx are zero; no button is down
InputIdle ==
  /\ e_state = 0 /\ e_keysym = 0 /\ e_clicks = 0 /\ e_is_click = 0
  /\ e_xy = Origin /\ e_root = Origin /\ pxy = Origin /\ e_d = Origin
  /\ dispatched = NoDispatch
  /\ down = {} /\ streak = 0 /\ held = {} /\ pushes = [b \in Buttons |-> 0]

Windows == {1, 2}
NoDiv == [exists |-> FALSE, hidden |-> FALSE, left |-> 0, top |-> 0,
          cw |-> 0, ch |-> 0, decorHidden |-> FALSE]

\* a window as constructed: not shown; Fl_Widget's flags have it visible
NewWindow(border) ==
  [x |-> 0, y |-> DecorHeight, w |-> 1, h |-> 1, border |-> border,
   visible |-> TRUE, xid |-> 0]

\* static int ID = 1; no window is shown and the document has no div of ours
WinIdle ==
  /\ win = [w \in Windows |-> NewWindow(TRUE)]
  /\ xlist = <<>>
  /\ dom = [id \in 1 .. MaxXid |-> NoDiv]
  /\ eventHandlers = {}
  /\ ID = 1
  /\ fl_window = 0
  /\ used = {}
  /\ wOp = [op |-> "none"]

\* the parts outside the clip, path, chooser and screen models are idle
\* no activation of wait() and no callback is on the stack
WaitIdle ==
  /\ frames = <<>>
  /\ flushes = 0
  /\ sysOp = [op |-> "none"]

\* Fl_Font numbers used here: the built-in fonts and the free ones after them
Fonts == 0 .. FL_FREE_FONT + 4 * MaxFamilies
NoBrowserFonts == [api |-> FALSE, permission |-> "denied", families |-> <<>>]

\* no font is set, built_in_table is empty, no promise is pending
FontTablesIdle ==
  /\ fl_fonts = [i \in Fonts |-> <<>>]
  /\ built_in_table = <<>>
  /\ built_in_done = FALSE
  /\ jobs = <<>>
  /\ fontOp = [op |-> "none", ret |-> 0]

FontIdle == browser = NoBrowserFonts /\ FontTablesIdle

\* no translate() of the image surface is pending
SurfIdle == surface = [pending |-> <<>>, before |-> <<>>]

LateIdle == ImgIdle /\ InputIdle /\ WinIdle /\ WaitIdle /\ FontIdle /\ SurfIdle

\* Fl_Emscripten_Screen_Driver(): num_screens = 0
ScreenInit ==
  /\ num_screens = 0
  /\ avail = [w |-> 2, h |-> 1]
  /\ out = [X |-> Unassigned, Y |-> Unassigned, W |-> Unassigned, H |-> Unassigned]
  /\ scrOp = [op |-> "construct"]
  /\ SelInit

(***************************************************************************)
(* Canvas 2D context.  A transform is <<a, b, c, d, e, f>>; e and f are    *)
(* kept in half pixels (the driver translates by 0.5).                     *)
(***************************************************************************)
Identity == <<1, 0, 0, 1, 0, 0>>

\* a region of the canvas is a set of half-pixel cells <<i, j>>
Cells(x2, y2, w2, h2) ==
  {<<i, j>> : i \in x2 .. (x2 + w2 - 1), j \in y2 .. (y2 + h2 - 1)}

\* a clip region: the whole canvas, or the cells it is made of
NoCanvasClip == [all |-> TRUE, cells |-> {}]

EmptyPath == [region |-> {}, segs |-> <<>>]

\* a fresh context: empty state stack, identity transform, no clip, empty path
NewCanvas ==
  [stack |-> <<>>, state |-> [ctm |-> Identity, clip |-> NoCanvasClip], path |-> EmptyPath]

\* ctx.save(): push a copy of the drawing state (the path is not part of it)
CtxSave(c) == [c EXCEPT !.stack = Append(@, c.state)]

\* ctx.restore(): pop the drawing state; nothing happens on an empty stack
CtxRestore(c) ==
  IF c.stack = <<>> THEN c
  ELSE [c EXCEPT !.state = c.stack[Len(c.stack)],
                 !.stack = SubSeq(c.stack, 1, Len(c.stack) - 1)]

\* ctx.beginPath()
CtxBeginPath(c) == [c EXCEPT !.path = EmptyPath]

\* ctx.rect(x, y, w, h) with x, y, w, h given in half pixels: the rectangle is
\* mapped through the current transform and added to the current path
CtxRect(c, x2, y2, w2, h2) ==
  LET t == c.state.ctm
  IN [c EXCEPT !.path.region =
        @ \cup Cells(t[1] * x2 + t[5], t[4] * y2 + t[6], t[1] * w2, t[4] * h2)]

\* ctx.clip(): intersect the clip region with the current path
CtxClip(c) ==
  [c EXCEPT !.state.clip =
     [all |-> FALSE,
      cells |-> IF @.all THEN c.path.region ELSE @.cells \cap c.path.region]]

\* ctx.transform(a, b, c, d, e, f): the current transform times the given one
\* (mt[5], mt[6] in whole pixels)
CtxTransform(c, mt) ==
  LET t == c.state.ctm
  IN [c EXCEPT !.state.ctm =
        <<t[1] * mt[1] + t[3] * mt[2], t[2] * mt[1] + t[4] * mt[2],
          t[1] * mt[3] + t[3] * mt[4], t[2] * mt[3] + t[4] * mt[4],
          2 * (t[1] * mt[5] + t[3] * mt[6]) + t[5],
          2 * (t[2] * mt[5] + t[4] * mt[6]) + t[6]>>]

\* ctx.resetTransform()
CtxResetTransform(c) == [c EXCEPT !.state.ctm = Identity]

\* ctx.scale(k, k)
CtxScale(c, k) ==
  LET t == c.state.ctm
  IN [c EXCEPT !.state.ctm = <<t[1] * k, t[2] * k, t[3] * k, t[4] * k, t[5], t[6]>>]

\* ctx.translate(0.5, 0.5)
CtxTranslateHalf(c) ==
  LET t == c.state.ctm
  IN [c EXCEPT !.state.ctm =
        <<t[1], t[2], t[3], t[4], t[5] + t[1] + t[3], t[6] + t[2] + t[4]>>]

\* a path element: the operation and its point in device space (half pixels)
Seg(c, op, x, y) ==
  LET t == c.state.ctm
  IN [op |-> op,
      x |-> 2 * (t[1] * x + t[3] * y) + t[5],
      y |-> 2 * (t[2] * x + t[4] * y) + t[6]]

\* ctx.moveTo, ctx.lineTo, ctx.arc (its centre), ctx.bezierCurveTo (its end)
CtxMoveTo(c, x, y) == [c EXCEPT !.path.segs = Append(@, Seg(c, "moveTo", x, y))]
CtxLineTo(c, x, y) == [c EXCEPT !.path.segs = Append(@, Seg(c, "lineTo", x, y))]
CtxArc(c, x, y) == [c EXCEPT !.path.segs = Append(@, Seg(c, "arc", x, y))]
CtxBezierCurveTo(c, x, y) ==
  [c EXCEPT !.path.segs = Append(@, Seg(c, "bezierCurveTo", x, y))]

(***************************************************************************)
(* Clip stack (EmClip list).  The no-clip entry has x = y = w = h = -1.    *)
(***************************************************************************)
Coords == 0 .. MaxCoord
Sizes == {0, 1, 2}
Rects == [x : Coords, y : Coords, w : Sizes, h : Sizes]

EmClip(x, y, w, h) == [x |-> x, y |-> y, w |-> w, h |-> h]
NoClip == EmClip(-1, -1, -1, -1)
NoQuery == [x |-> -1, y |-> -1, w |-> -1, h |-> -1, ret |-> -1]

\* clip_box without the clamp of the left edge (X = x whatever the clip is)
clip_box_unclamped(s, x, y, w, h, o) ==
  IF s = <<>> THEN [X |-> x, Y |-> y, W |-> w, H |-> h, ret |-> 0]
  ELSE LET e == s[Len(s)] IN
    IF e.w < 0 THEN [X |-> x, Y |-> y, W |-> w, H |-> h, ret |-> 1]
    ELSE
      LET X == x
          Y == IF y > e.y THEN y ELSE e.y
          left == (x + w) < (e.x + e.w)
          W == IF left THEN x + w - X ELSE e.x + e.w - X
          low == (y + h) < (e.y + e.h)
          H == IF low THEN y + h - Y ELSE e.y + e.h - Y
      IN IF W < 0 THEN [X |-> X, Y |-> Y, W |-> 0, H |-> o.H, ret |-> 1]
         ELSE IF H < 0 THEN [X |-> X, Y |-> Y, W |-> 0, H |-> 0, ret |-> 1]
         ELSE [X |-> X, Y |-> Y, W |-> W, H |-> H, ret |-> 1]

\* clip_box(x, y, w, h, X, Y, W, H) against the clip stack s; o holds the
\* values of the reference parameters on entry, the result their values on
\* return together with the return value
clip_box(s, x, y, w, h, o) ==
  IF s = <<>> THEN [X |-> x, Y |-> y, W |-> w, H |-> h, ret |-> 0]
  ELSE LET e == s[Len(s)] IN
    IF e.w < 0 THEN [X |-> x, Y |-> y, W |-> w, H |-> h, ret |-> 1]
    ELSE
      LET X == IF x > e.x THEN x ELSE e.x
          Y == IF y > e.y THEN y ELSE e.y
          ret1 == IF x > e.x \/ y > e.y THEN 1 ELSE 0
          left == (x + w) < (e.x + e.w)
          W == IF left THEN x + w - X ELSE e.x + e.w - X
          ret2 == IF left THEN 1 ELSE ret1
          low == (y + h) < (e.y + e.h)
          H == IF low THEN y + h - Y ELSE e.y + e.h - Y
          ret3 == IF low THEN 1 ELSE ret2
      IN IF W < 0 THEN [X |-> X, Y |-> Y, W |-> 0, H |-> o.H, ret |-> 1]
         ELSE IF H < 0 THEN [X |-> X, Y |-> Y, W |-> 0, H |-> 0, ret |-> 1]
         ELSE [X |-> X, Y |-> Y, W |-> W, H |-> H, ret |-> ret3]

\* the entry push_clip stores: new EmClip() is value-initialised (all zero)
\* and clip_box fills it in
NewEntry(s, x, y, w, h) ==
  LET b == clip_box(s, x, y, w, h, [X |-> 0, Y |-> 0, W |-> 0, H |-> 0])
  IN EmClip(b.X, b.Y, b.W, b.H)

push_clip(x, y, w, h) ==
  /\ Len(emclip_) < MaxClip
  /\ LET c == NewEntry(emclip_, x, y, w, h)
     IN /\ emclip_' = Append(emclip_, c)
        /\ ctxt' = CtxClip(CtxRect(CtxSave(ctxt), 2 * c.x - 1, 2 * c.y - 1,
                                   2 * c.w, 2 * c.h))
  /\ lastOp' = "push_clip"
  /\ nc' = NoQuery
  /\ UNCHANGED <<what, gap_, m, depth0, beginState>>
  /\ UNCHANGED <<filterVars, chooserVars, screenVars, lateVars>>

push_no_clip ==
  /\ Len(emclip_) < MaxClip
  /\ emclip_' = Append(emclip_, NoClip)
  /\ ctxt' = CtxRestore(CtxSave(ctxt))
  /\ lastOp' = "push_no_clip"
  /\ nc' = NoQuery
  /\ UNCHANGED <<what, gap_, m, depth0, beginState>>
  /\ UNCHANGED <<filterVars, chooserVars, screenVars, lateVars>>

pop_clip ==
  /\ IF emclip_ = <<>>
       THEN UNCHANGED <<emclip_, ctxt>>
       ELSE /\ emclip_' = SubSeq(emclip_, 1, Len(emclip_) - 1)
            /\ ctxt' = CtxRestore(ctxt)
  /\ lastOp' = "pop_clip"
  /\ nc' = NoQuery
  /\ UNCHANGED <<what, gap_, m, depth0, beginState>>
  /\ UNCHANGED <<filterVars, chooserVars, screenVars, lateVars>>

\* the value not_clipped(x, y, w, h) returns for the clip stack s
not_clipped_ret(s, x, y, w, h) ==
  IF s = <<>> THEN 1
  ELSE IF s[Len(s)].w < 0 THEN 1
  ELSE IF clip_box(s, x, y, w, h, [X |-> 0, Y |-> 0, W |-> 0, H |-> 0]).W # 0 THEN 1
  ELSE 0

not_clipped(x, y, w, h) ==
  /\ nc' = [x |-> x, y |-> y, w |-> w, h |-> h,
            ret |-> not_clipped_ret(emclip_, x, y, w, h)]
  /\ lastOp' = "not_clipped"
  /\ UNCHANGED <<emclip_, ctxt, what, gap_, m, depth0, beginState>>
  /\ UNCHANGED <<filterVars, chooserVars, screenVars, lateVars>>

\* the driver after construction and context(val) on a fresh canvas:
\* restore() (a no-op), lineWidth = 0, save()
GfxInit ==
  /\ emclip_ = <<>>
  /\ ctxt = CtxSave(CtxRestore(NewCanvas))
  /\ what = "NONE"
  /\ gap_ = 1
  /\ m = Identity
  /\ lastOp = "context"
  /\ depth0 = 1
  /\ nc = NoQuery
  /\ beginState = [depth |-> 0, ctm |-> Identity]

InitClip == GfxInit /\ FilterIdle /\ ChooserInit /\ ScreenInit /\ LateIdle

\* the rectangles the clip operations are driven with: squares on the diagonal
ClipInputs == {r \in Rects : r.x = r.y /\ r.w = r.h}

PushClip == \E r \in ClipInputs : push_clip(r.x, r.y, r.w, r.h)
PushNoClip == push_no_clip
PopClip == pop_clip
\* the rectangles not_clipped is asked about: single pixels
QueryInputs == {r \in Rects : r.w = 1 /\ r.h = 1}

NotClipped == \E r \in QueryInputs : not_clipped(r.x, r.y, r.w, r.h)

NextClip == PushClip \/ PushNoClip \/ PopClip \/ NotClipped

SpecClip == InitClip /\ [][NextClip]_vars

(***************************************************************************)
(* Path brackets and the transform.  Brackets are not nested and scale()   *)
(* is called between brackets, as the toolkit's drawing code does.         *)
(***************************************************************************)
Pts == {<<0, 0>>, <<1, 2>>}
ScaleFactors == {1, 2}
Matrices == {Identity, <<2, 0, 0, 2, 0, 0>>, <<1, 0, 0, 1, 1, 2>>}

\* room left in the recorded path for n more elements
Room(n) == Len(ctxt.path.segs) + n <= MaxPath

\* the driver's matrix m applied to a point (fl_transform_x, fl_transform_y)
TransformX(x, y) == x * m[1] + y * m[3] + m[5]
TransformY(x, y) == x * m[2] + y * m[4] + m[6]

\* concat(): ctx.transform(m.a, m.b, m.c, m.d, m.x, m.y)
concat(c) == CtxTransform(c, m)

\* reconcat(): ctx.resetTransform()
reconcat(c) == CtxResetTransform(c)

\* what a path or transform operation leaves behind
Effect(op, c, w, g) ==
  /\ ctxt' = c
  /\ what' = w
  /\ gap_' = g
  /\ lastOp' = op
  /\ depth0' = depth0 + Len(c.stack) - Len(ctxt.stack)
  /\ nc' = NoQuery
  /\ UNCHANGED <<emclip_, m>>
  /\ UNCHANGED <<filterVars, chooserVars, screenVars, lateVars>>

\* begin_points, begin_line, begin_loop, begin_polygon: save(), concat(),
\* beginPath(), gap_ = 1, what = mode
Begin(op, mode, g) ==
  /\ what = "NONE"
  /\ Effect(op, CtxBeginPath(concat(CtxSave(ctxt))), mode, g)
  /\ beginState' = [depth |-> Len(ctxt.stack), ctm |-> ctxt.state.ctm]

begin_points == Begin("begin_points", "POINTS", 1)
begin_line == Begin("begin_line", "LINE", 1)
begin_loop == Begin("begin_loop", "LOOP", 1)
begin_polygon == Begin("begin_polygon", "POLYGON", 1)
\* begin_complex_polygon: begin_polygon(); gap_ = 0
begin_complex_polygon == Begin("begin_complex_polygon", "POLYGON", 0)

\* end_line without the ctx.restore()
end_line_unbalanced(op, mode) ==
  /\ what = mode
  /\ Effect(op, reconcat(ctxt), "NONE", 1)
  /\ UNCHANGED beginState

\* end_line: gap_ = 1, reconcat(), stroke(), restore(), what = NONE
end_line(op, mode) ==
  /\ what = mode
  /\ Effect(op, CtxRestore(reconcat(ctxt)), "NONE", 1)
  /\ UNCHANGED beginState

\* end_loop: gap_ = 1, reconcat(), closePath(), stroke(), restore(), what = NONE
end_loop ==
  /\ what = "LOOP"
  /\ Effect("end_loop", CtxRestore(reconcat(ctxt)), "NONE", 1)
  /\ UNCHANGED beginState

\* end_polygon: gap_ = 1, reconcat(), closePath(), fill(), restore(), what = NONE
end_polygon(op) ==
  /\ what = "POLYGON"
  /\ Effect(op, CtxRestore(reconcat(ctxt)), "NONE", 1)
  /\ UNCHANGED beginState

\* scale(k): restore(), save(), scale(k, k), translate(0.5, 0.5)
scale(k) ==
  /\ what = "NONE"
  /\ Effect("scale", CtxTranslateHalf(CtxScale(CtxSave(CtxRestore(ctxt)), k)),
            what, gap_)
  /\ UNCHANGED beginState

\* vertex(x, y)
vertex(x, y) ==
  /\ what # "NONE"
  /\ Room(1)
  /\ IF what = "POINTS"
       THEN Effect("vertex", CtxRect(CtxMoveTo(ctxt, x, y), 2 * x - 1, 2 * y - 1, 2, 2),
                   what, 1)
       ELSE IF gap_ # 0
         THEN Effect("vertex", CtxMoveTo(ctxt, x, y), what, 0)
         ELSE Effect("vertex", CtxLineTo(ctxt, x, y), what, gap_)
  /\ UNCHANGED beginState

\* transformed_vertex(x, y): in POINTS mode moveTo and point(x, y) (a fillRect),
\* otherwise reconcat(), moveTo or lineTo, concat()
transformed_vertex(x, y) ==
  /\ what # "NONE"
  /\ Room(1)
  /\ IF what = "POINTS"
       THEN Effect("transformed_vertex", CtxMoveTo(ctxt, x, y), what, 1)
       ELSE IF gap_ # 0
         THEN Effect("transformed_vertex",
                     concat(CtxMoveTo(reconcat(ctxt), x, y)), what, 0)
         ELSE Effect("transformed_vertex",
                     concat(CtxLineTo(reconcat(ctxt), x, y)), what, gap_)
  /\ UNCHANGED beginState

\* curve(x, y, x1, y1, x2, y2, x3, y3): nothing in mode NONE; in POINTS mode
\* the base class walks the curve with transformed_vertex (its two end points
\* here); otherwise moveTo or lineTo (x, y), bezierCurveTo, gap_ = 0
curve(x, y, x3, y3) ==
  /\ Room(2)
  /\ IF what = "NONE"
       THEN Effect("curve", ctxt, what, gap_)
       ELSE IF what = "POINTS"
         THEN Effect("curve",
                     CtxMoveTo(CtxMoveTo(ctxt, TransformX(x, y), TransformY(x, y)),
                               TransformX(x3, y3), TransformY(x3, y3)),
                     what, 1)
         ELSE Effect("curve",
                     CtxBezierCurveTo(IF gap_ # 0 THEN CtxMoveTo(ctxt, x, y)
                                                  ELSE CtxLineTo(ctxt, x, y),
                                      x3, y3),
                     what, 0)
  /\ UNCHANGED beginState

\* arc(x, y, r, start, end): nothing in mode NONE; beginPath() when gap_ == 1,
\* gap_ = 0, ctx.arc
arc(x, y) ==
  /\ Room(1)
  /\ IF what = "NONE"
       THEN Effect("arc", ctxt, what, gap_)
       ELSE Effect("arc", CtxArc(IF gap_ = 1 THEN CtxBeginPath(ctxt) ELSE ctxt, x, y),
                   what, 0)
  /\ UNCHANGED beginState

\* circle(x, y, r): in mode NONE save(), concat(), arc, stroke(), reconcat(),
\* restore(); inside a bracket only ctx.arc
circle(x, y) ==
  /\ Room(1)
  /\ IF what = "NONE"
       THEN Effect("circle", CtxRestore(reconcat(CtxArc(concat(CtxSave(ctxt)), x, y))),
                   what, gap_)
       ELSE Effect("circle", CtxArc(ctxt, x, y), what, gap_)
  /\ UNCHANGED beginState

\* the matrix m is set by the toolkit's matrix calls before drawing starts
InitPath ==
  /\ emclip_ = <<>>
  /\ ctxt = CtxSave(CtxRestore(NewCanvas))
  /\ what = "NONE"
  /\ gap_ = 1
  /\ m \in Matrices
  /\ lastOp = "context"
  /\ depth0 = 1
  /\ nc = NoQuery
  /\ beginState = [depth |-> 0, ctm |-> Identity]
  /\ FilterIdle /\ ChooserInit /\ ScreenInit /\ LateIdle

Scale == \E k \in ScaleFactors : scale(k)
BeginPoints == begin_points
BeginLine == begin_line
BeginLoop == begin_loop
BeginPolygon == begin_polygon
BeginComplexPolygon == begin_complex_polygon
Vertex == \E q \in Pts : vertex(q[1], q[2])
TransformedVertex == \E q \in Pts : transformed_vertex(q[1], q[2])
Curve == \E q \in Pts, q3 \in Pts : curve(q[1], q[2], q3[1], q3[2])
Arc == \E q \in Pts : arc(q[1], q[2])
Circle == \E q \in Pts : circle(q[1], q[2])
\* end_points: end_line()
EndPoints == end_line("end_points", "POINTS")
EndLine == end_line("end_line", "LINE")
EndLoop == end_loop
EndPolygon == end_polygon("end_polygon")
\* end_complex_polygon: end_polygon()
EndComplexPolygon == end_polygon("end_complex_polygon")

NextPath ==
  \/ Scale \/ BeginPoints \/ BeginLine \/ BeginLoop \/ BeginPolygon
  \/ BeginComplexPolygon \/ Vertex \/ TransformedVertex \/ Curve \/ Arc \/ Circle
  \/ EndPoints \/ EndLine \/ EndLoop \/ EndPolygon \/ EndComplexPolygon

SpecPath == InitPath /\ [][NextPath]_vars

(***************************************************************************)
(* parse_filter, one loop iteration per step.  Memory holds f, its          *)
(* terminator, then the bytes of whatever object follows f; zero bytes lie *)
(* behind those.                                                           *)
(***************************************************************************)
TAB == "\t"
NL == "\n"
FilterChars == {"*", TAB, NL, "a", " "}

SeqsUpTo(S, n) == UNION {[1 .. k -> S] : k \in 0 .. n}

\* *p for the pointer value i
Byte(i) ==
  IF i <= Len(f) THEN f[i]
  ELSE IF i = Len(f) + 1 THEN NUL
  ELSE IF i - Len(f) - 1 <= Len(after) THEN after[i - Len(f) - 1]
  ELSE NUL

IdleOthersFilter == GfxInit /\ ChooserInit /\ ScreenInit /\ LateIdle

\* parse_filter(f) is entered: parsed[0] = '\0', p = f
InitFilter ==
  /\ f \in SeqsUpTo(FilterChars, MaxFilterLen)
  /\ after \in [1 .. MaxOverrun -> {"*", "a", NUL}]
  /\ p = 1
  /\ parsed = <<>>
  /\ pcF = "outer"
  /\ IdleOthersFilter

\* while (*p) { if (*p == '*') { p++; <inner loop> } p++; }
ParseOuter ==
  /\ pcF = "outer"
  /\ IF Byte(p) = NUL
       THEN pcF' = "strip" /\ UNCHANGED p
       ELSE IF Byte(p) = "*"
         THEN pcF' = "inner" /\ p' = p + 1
         ELSE pcF' = "outer" /\ p' = p + 1
  /\ UNCHANGED <<f, after, parsed>>
  /\ UNCHANGED <<gfxVars, chooserVars, screenVars, lateVars>>

\* while (*p != '\t' && *p != '\n' && *p != '\0') { strncat(parsed, p, 1); p++; }
\* strcat(parsed, " "); and the p++ that follows the if block
ParseInner ==
  /\ pcF = "inner"
  /\ IF Byte(p) \notin {TAB, NL, NUL}
       THEN parsed' = Append(parsed, Byte(p)) /\ p' = p + 1 /\ pcF' = "inner"
       ELSE parsed' = Append(parsed, " ") /\ p' = p + 1 /\ pcF' = "outer"
  /\ UNCHANGED <<f, after>>
  /\ UNCHANGED <<gfxVars, chooserVars, screenVars, lateVars>>

\* remove one trailing space and return
ParseStrip ==
  /\ pcF = "strip"
  /\ parsed' = IF Len(parsed) > 0 /\ parsed[Len(parsed)] = " "
                 THEN SubSeq(parsed, 1, Len(parsed) - 1)
                 ELSE parsed
  /\ pcF' = "done"
  /\ UNCHANGED <<f, after, p>>
  /\ UNCHANGED <<gfxVars, chooserVars, screenVars, lateVars>>

NextFilter == ParseOuter \/ ParseInner \/ ParseStrip

SpecFilter == InitFilter /\ [][NextFilter]_vars

(***************************************************************************)
(* Native file chooser: show() and the functions that read and write       *)
(* through the stored handles.  A handle is a file name in a directory.    *)
(***************************************************************************)
Names == {"a.txt", "b.txt"}
Dirs == {1, 2}
Handles == [name : Names, dir : Dirs]
BTypes == 0 .. 5

\* what the browser's picker resolves to for a chooser type once the user has
\* picked h: showOpenFilePicker (types 0 and 2, always with multiple: false)
\* gives an array of one handle, the save and directory pickers one handle
PickerResult(t, h) == IF t \in {0, 2} THEN <<h>> ELSE h

\* type(val)
type(c, t) ==
  /\ chooser' = [chooser EXCEPT ![c].btype = t]
  /\ io' = NoIo
  /\ UNCHANGED <<hasPicker, filehandles>>
  /\ UNCHANGED <<gfxVars, filterVars, screenVars, lateVars>>

\* show(): -1 when the browser has no picker; otherwise the picked handles
\* replace the static vector filehandles and their names replace files
show(c, h) ==
  /\ IF ~hasPicker
       THEN UNCHANGED <<filehandles, chooser>>
       ELSE LET r == PickerResult(chooser[c].btype, h)
                fh == IF chooser[c].btype \in {0, 2} THEN r ELSE <<r>>
            IN /\ filehandles' = fh
               /\ chooser' = [chooser EXCEPT
                    ![c].files = IF chooser[c].btype \in {0, 2}
                                   THEN [k \in 1 .. Len(fh) |-> fh[k].name]
                                   ELSE <<fh[1].name>>,
                    ![c].picked = fh]
  /\ io' = NoIo
  /\ UNCHANGED hasPicker
  /\ UNCHANGED <<gfxVars, filterVars, screenVars, lateVars>>

\* find_index(str): index of the first handle named str, -1 if there is none
find_index(str) ==
  IF \E k \in 1 .. Len(filehandles) : filehandles[k].name = str
    THEN (CHOOSE k \in 1 .. Len(filehandles) :
            /\ filehandles[k].name = str
            /\ \A j \in 1 .. (k - 1) : filehandles[j].name # str) - 1
    ELSE -1

\* fl_read_to_string, fl_read_to_binary, fl_write_to_file called with the name
\* filename(i) of chooser c: idx = find_index(empath), NULL or -1 when idx == -1
FileCall(fn, c, i) ==
  /\ Len(chooser[c].files) > i
  /\ io' = [fn |-> fn, c |-> c, i |-> i, idx |-> find_index(chooser[c].files[i + 1])]
  /\ UNCHANGED <<hasPicker, filehandles, chooser>>
  /\ UNCHANGED <<gfxVars, filterVars, screenVars, lateVars>>

fl_read_to_string(c, i) == FileCall("fl_read_to_string", c, i)
fl_read_to_binary(c, i) == FileCall("fl_read_to_binary", c, i)
fl_write_to_file(c, i) == FileCall("fl_write_to_file", c, i)

InitChooser ==
  /\ hasPicker \in BOOLEAN
  /\ filehandles = <<>>
  /\ chooser = [c \in Choosers |-> [btype |-> 0, files |-> <<>>, picked |-> <<>>]]
  /\ io = NoIo
  /\ GfxInit /\ FilterIdle /\ ScreenInit /\ LateIdle

SetType == \E c \in Choosers, t \in BTypes : type(c, t)
Show == \E c \in Choosers, h \in Handles : show(c, h)
ReadToString == \E c \in Choosers, i \in 0 .. 1 : fl_read_to_string(c, i)
ReadToBinary == \E c \in Choosers, i \in 0 .. 1 : fl_read_to_binary(c, i)
WriteToFile == \E c \in Choosers, i \in 0 .. 1 : fl_write_to_file(c, i)

NextChooser == SetType \/ Show \/ ReadToString \/ ReadToBinary \/ WriteToFile

SpecChooser == InitChooser /\ [][NextChooser]_vars

(***************************************************************************)
(* Screen driver: screen geometry                                          *)
(***************************************************************************)
ScreenIndexes == -1 .. 2
CallerValues == {Unassigned, 5}
XYWH == [X : CallerValues, Y : CallerValues, W : CallerValues, H : CallerValues]

\* x(), y(), w(), h(): the origin and screen.availWidth, screen.availHeight
ScreenX == 0
ScreenY == 0
ScreenW == avail.w
ScreenH == avail.h

\* screen_xywh(X, Y, W, H, n) for the caller's values v: init() when
\* num_screens < 0 (it leaves num_screens alone), n forced to 0 when out of
\* range, and the assignment made only if num_screens > 0
screen_xywh(v, n) ==
  IF num_screens > 0
    THEN [X |-> 0, Y |-> 0, W |-> ScreenW, H |-> ScreenH]
    ELSE v

\* screen_work_area(X, Y, W, H, n): Fl::x(), Fl::y(), Fl::w(), Fl::h() for
\* screen 0, screen_xywh for the others
screen_work_area(v, n) ==
  LET k == IF n < 0 \/ n >= num_screens THEN 0 ELSE n
  IN IF k = 0
       THEN [X |-> ScreenX, Y |-> ScreenY, W |-> ScreenW, H |-> ScreenH]
       ELSE screen_xywh(v, k)

ScreenXYWH ==
  /\ \E v \in XYWH, n \in ScreenIndexes :
       /\ out' = screen_xywh(v, n)
       /\ scrOp' = [op |-> "screen_xywh", n |-> n]
  /\ UNCHANGED <<num_screens, avail, selVars>>
  /\ UNCHANGED <<gfxVars, filterVars, chooserVars, lateVars>>

ScreenWorkArea ==
  /\ \E v \in XYWH, n \in ScreenIndexes :
       /\ out' = screen_work_area(v, n)
       /\ scrOp' = [op |-> "screen_work_area", n |-> n]
  /\ UNCHANGED <<num_screens, avail, selVars>>
  /\ UNCHANGED <<gfxVars, filterVars, chooserVars, lateVars>>

InitScreen ==
  /\ num_screens = 0
  /\ avail \in [w : {2, 3}, h : {1, 2}]
  /\ out = [X |-> Unassigned, Y |-> Unassigned, W |-> Unassigned, H |-> Unassigned]
  /\ scrOp = [op |-> "construct"]
  /\ SelInit
  /\ GfxInit /\ FilterIdle /\ ChooserInit /\ LateIdle

NextScreen == ScreenXYWH \/ ScreenWorkArea

SpecScreen == InitScreen /\ [][NextScreen]_vars

(***************************************************************************)
(* Screen driver: selection buffers, copy and paste.  A buffer is held as  *)
(* its capacity and the bytes written since it was allocated (the rest of  *)
(* the allocation is uninitialised).                                       *)
(***************************************************************************)
Uninit == -1
PlainText == "text/plain"
Image == "image"
PasteTypes == {"", PlainText, Image, "text/other"}

Fill(b, n) == [i \in 1 .. n |-> b]

\* a text longer than the slack of any buffer allocated for a short one
LongText == Fill(1, Slack + MaxCopyLen)

\* the short texts: runs of a byte up to MaxCopyLen, and a mixed one
ShortTexts == {Fill(1, n) : n \in 0 .. MaxCopyLen} \cup {<<1, 2>>}

\* the calls made to copy(): every short text in full, the long text, a
\* prefix of a text, a null pointer and a negative length
CopyCalls ==
  {[stuff |-> Ptr(b), len |-> Len(b)] : b \in ShortTexts \cup {LongText}}
    \cup {[stuff |-> Ptr(<<2, 1>>), len |-> 1],
          [stuff |-> NULL, len |-> 0],
          [stuff |-> Ptr(<<1>>), len |-> -1]}

\* memcpy(buf, stuff, len); buf[len] = 0 on the bytes written so far
Store(old, stuff, len) ==
  [i \in 1 .. (IF Len(old) > len + 1 THEN Len(old) ELSE len + 1) |->
     IF i <= len THEN stuff[i] ELSE IF i = len + 1 THEN 0 ELSE old[i]]

\* copy() that never reallocates once a buffer exists
copy_sel_nogrow(s, stuff, len, clipboard) ==
  IF stuff.null \/ len < 0 THEN s
  ELSE
    LET cb == IF clipboard >= 2 THEN 1 ELSE clipboard
        grow == s[cb].cap = 0
        cap2 == IF grow THEN len + Slack ELSE s[cb].cap
        old == IF grow THEN <<>> ELSE s[cb].buf
    IN [s EXCEPT ![cb] =
          [buf |-> Store(old, stuff.bytes, len), len |-> len, cap |-> cap2]]

\* the selection arrays after copy(stuff, len, clipboard, type)
copy_sel(s, stuff, len, clipboard) ==
  IF stuff.null \/ len < 0 THEN s
  ELSE
    LET cb == IF clipboard >= 2 THEN 1 ELSE clipboard
        grow == len + 1 > s[cb].cap
        cap2 == IF grow THEN len + Slack ELSE s[cb].cap
        old == IF grow THEN <<>> ELSE s[cb].buf
    IN [s EXCEPT ![cb] =
          [buf |-> Store(old, stuff.bytes, len), len |-> len, cap |-> cap2]]

\* copy(stuff, len, clipboard, type); for clipboard 1 the text is also handed
\* to navigator.clipboard.writeText, which may or may not succeed
copy(stuff, len, clipboard, written) ==
  /\ sel' = copy_sel(sel, stuff, len, clipboard)
  /\ browserClip' = IF ~stuff.null /\ len >= 0 /\ clipboard >= 1 /\ written
                      THEN SubSeq(stuff.bytes, 1, len)
                      ELSE browserClip
  /\ UNCHANGED <<e_text, e_length, pasteLog, heapFault>>

\* what a caller of copy() is entitled to find in the buffers afterwards
Requested(stuff, len, clipboard) ==
  IF stuff.null \/ len < 0 THEN lastCopy
  ELSE [lastCopy EXCEPT ![IF clipboard >= 2 THEN 1 ELSE clipboard] =
          [set |-> TRUE, bytes |-> SubSeq(stuff.bytes, 1, len)]]

CopyOf(calls) ==
  /\ \E call \in calls, clipboard \in 0 .. 2, written \in BOOLEAN :
       /\ copy(call.stuff, call.len, clipboard, written)
       /\ lastCopy' = Requested(call.stuff, call.len, clipboard)
  /\ scrOp' = [op |-> "copy"]
  /\ UNCHANGED geomVars
  /\ UNCHANGED <<gfxVars, filterVars, chooserVars, lateVars>>

Copy == CopyOf(CopyCalls)

InitCopy == ScreenInit /\ GfxInit /\ FilterIdle /\ ChooserInit /\ LateIdle

NextCopy == Copy

SpecCopy == InitCopy /\ [][NextCopy]_vars

\* the texts another page or program may have left on the browser clipboard
ForeignTexts == {<<>>, <<2>>}

\* the copy() calls made where pasting follows: two texts and a null pointer
SelectionCalls ==
  {[stuff |-> Ptr(b), len |-> Len(b)] : b \in {<<1>>, <<1, 2>>}} \cup {[stuff |-> NULL, len |-> 0]}

CopySelection == CopyOf(SelectionCalls)

\* what the receiver sees while it handles FL_PASTE
PasteEvent(text, len, mime) ==
  [event |-> "FL_PASTE", e_text |-> text, e_length |-> len, e_clipboard_type |-> mime]

\* fl_selection_buffer[clipboard][at] = 0: inside the allocation the byte is
\* stored (bytes never written before it stay uninitialised); a store through
\* the null pointer or outside the allocation is a heap fault
StoreZero(b, at) ==
  IF at < 0 \/ at >= b.cap THEN b
  ELSE [b EXCEPT !.buf =
          [i \in 1 .. (IF Len(b.buf) > at + 1 THEN Len(b.buf) ELSE at + 1) |->
             IF i = at + 1 THEN 0 ELSE IF i <= Len(b.buf) THEN b.buf[i] ELSE Uninit]]

\* paste(receiver, clipboard, type) with type named mime; clipText is what readText() resolves to
\* and image tells whether the browser clipboard holds an image
paste(clipboard, mime, clipText, image) ==
  LET t == IF mime = "" THEN PlainText ELSE mime
      len == Len(clipText)
  IN IF clipboard = 0
       THEN /\ pasteLog' = <<>>
            /\ UNCHANGED <<sel, e_text, e_length, heapFault>>
     ELSE IF t = PlainText
       THEN /\ pasteLog' = <<PasteEvent(Ptr(clipText), len, PlainText)>>
            /\ e_text' = NULL
            /\ e_length' = len
            /\ heapFault' = (heapFault \/ len - 1 < 0 \/ len - 1 >= sel[clipboard].cap)
            /\ sel' = [[sel EXCEPT ![clipboard] = StoreZero(sel[clipboard], len - 1)]
                         EXCEPT ![1].len = len]
     ELSE IF t = Image
       THEN /\ pasteLog' = IF image THEN <<PasteEvent(e_text, e_length, Image)>> ELSE <<>>
            /\ UNCHANGED <<sel, e_text, e_length, heapFault>>
     ELSE /\ pasteLog' = <<>>
          /\ sel' = [sel EXCEPT ![1].len = 0]
          /\ UNCHANGED <<e_text, e_length, heapFault>>

Paste ==
  /\ \E clipboard \in 0 .. 1, mime \in PasteTypes, foreign \in ForeignTexts \cup {browserClip},
        image \in BOOLEAN :
       /\ paste(clipboard, mime, foreign, image)
       /\ browserClip' = foreign
       /\ scrOp' = [op |-> "paste", clipboard |-> clipboard,
                    plain |-> (mime \in {"", PlainText})]
  /\ UNCHANGED lastCopy
  /\ UNCHANGED geomVars
  /\ UNCHANGED <<gfxVars, filterVars, chooserVars, lateVars>>

InitClipboard == ScreenInit /\ GfxInit /\ FilterIdle /\ ChooserInit /\ LateIdle

NextClipboard == CopySelection \/ Paste

SpecClipboard == InitClipboard /\ [][NextClipboard]_vars

(***************************************************************************)
(* draw_fixed of an Fl_RGB_Image: conversion to RGBA8888.  The image's     *)
(* lines are packed (ld() == 0), its array holds data_w * data_h * d bytes.*)
(***************************************************************************)
\* the pixels of the images drawn: component k of a pixel is its first
\* component plus k, so that no two components of a pixel are equal
PixelBases == {1, 251}
Depths == 0 .. 4
ImageSizes == {wh \in (1 .. MaxPixels) \X (1 .. MaxPixels) : wh[1] * wh[2] <= MaxPixels}

\* the array of an image of depth d whose pixel i starts with px[i]
ArrayOf(px, d) ==
  [j \in 1 .. Len(px) * d |-> px[((j - 1) \div d) + 1] + ((j - 1) % d)]

\* the images handed to draw_fixed: every depth, with and without an array
Images ==
  UNION {{[d |-> d, w |-> wh[1], h |-> wh[2], hasArray |-> TRUE, array |-> ArrayOf(px, d)] :
            px \in [1 .. wh[1] * wh[2] -> PixelBases]} : d \in Depths, wh \in ImageSizes}
    \cup {[d |-> 1, w |-> 1, h |-> 1, hasArray |-> FALSE, array |-> <<>>]}

\* case 4: every byte is pushed as it is (i is the 1-based index of array[i - 1])
RECURSIVE Push4(_, _, _)
Push4(a, i, sz) ==
  IF i > sz THEN <<>> ELSE <<a[i]>> \o Push4(a, i + 1, sz)

\* case 3 without the push_back(255)
RECURSIVE Push3_noalpha(_, _, _)
Push3_noalpha(a, i, sz) ==
  IF i > sz THEN <<>> ELSE <<a[i], a[i + 1], a[i + 2]>> \o Push3_noalpha(a, i + 3, sz)

\* case 3: r, g, b, 255
RECURSIVE Push3(_, _, _)
Push3(a, i, sz) ==
  IF i > sz THEN <<>> ELSE <<a[i], a[i + 1], a[i + 2], 255>> \o Push3(a, i + 3, sz)

\* case 2: v, v, v, a
RECURSIVE Push2(_, _, _)
Push2(a, i, sz) ==
  IF i > sz THEN <<>> ELSE <<a[i], a[i], a[i], a[i + 1]>> \o Push2(a, i + 2, sz)

\* case 1: v, v, v, 255
RECURSIVE Push1(_, _, _)
Push1(a, i, sz) ==
  IF i > sz THEN <<>> ELSE <<a[i], a[i], a[i], 255>> \o Push1(a, i + 1, sz)

\* the vector image_data after the switch on rgb->d()
ImageData(img) ==
  LET sz == img.w * img.h * img.d
  IN CASE img.d = 4 -> Push4(img.array, 1, sz)
       [] img.d = 3 -> Push3(img.array, 1, sz)
       [] img.d = 2 -> Push2(img.array, 1, sz)
       [] img.d = 1 -> Push1(img.array, 1, sz)
       [] OTHER -> <<>>

\* draw_fixed(rgb, XP, YP, WP, HP, cx, cy) for an image that is not empty
\* (an empty one goes to draw_empty of the base class); skip is start_image
\* answering that there is nothing to draw.  The canvas part is save, rect,
\* clip, putImageData, restore: the rectangle stays in the current path.
draw_fixed(XP, YP, WP, HP, skip) ==
  /\ rgb.d # 0 /\ rgb.hasArray
  /\ IF skip
       THEN /\ image_data' = NoBuffer
            /\ imgOp' = "nothing to draw"
            /\ UNCHANGED <<ctxt, lastOp>>
       ELSE /\ image_data' = [passed |-> TRUE, bytes |-> ImageData(rgb),
                               w |-> rgb.w, h |-> rgb.h]
            /\ imgOp' = "putImageData"
            /\ ctxt' = CtxRestore(CtxClip(CtxRect(CtxSave(ctxt),
                                                  2 * XP, 2 * YP, 2 * WP, 2 * HP)))
            /\ lastOp' = "draw_fixed"
  /\ UNCHANGED <<rgb, emclip_, what, gap_, m, depth0, nc, beginState>>
  /\ UNCHANGED <<filterVars, chooserVars, screenVars, inputVars, winVars,
               waitVars, fontVars, surfVars>>

DrawFixed == \E r \in ClipInputs, skip \in BOOLEAN : draw_fixed(r.x, r.y, r.w, r.h, skip)

InitImage ==
  /\ rgb \in Images
  /\ image_data = NoBuffer
  /\ imgOp = "none"
  /\ GfxInit /\ FilterIdle /\ ChooserInit /\ ScreenInit /\ InputIdle /\ WinIdle
  /\ WaitIdle /\ FontIdle /\ SurfIdle

NextImage == DrawFixed

SpecImage == InitImage /\ [][NextImage]_vars

(***************************************************************************)
(* Mouse and wheel handlers.  The browser delivers mousedown and mouseup   *)
(* of a button in alternation, and a dblclick right after the mouseup that *)
(* completes the second of two quick clicks of the primary button.         *)
(***************************************************************************)
\* FL/Enumerations.H: the bits of Fl::e_state and the base of button keysyms
FL_SHIFT == 65536
FL_CTRL == 262144
FL_ALT == 524288
FL_META == 4194304
FL_BUTTON1 == 16777216
FL_BUTTON2 == 33554432
FL_BUTTON3 == 67108864
FL_Button == 65256

HasBit(n, bit) == (n \div bit) % 2 = 1
SetBit(n, bit) == IF HasBit(n, bit) THEN n ELSE n + bit
ClearBit(n, bit) == IF HasBit(n, bit) THEN n - bit ELSE n

\* state & 0xff0000
KeepModifiers(n) == (n % 16777216) - (n % 65536)

Abs(n) == IF n < 0 THEN -n ELSE n

Positions == {[x |-> 0, y |-> 0], [x |-> 6, y |-> 0]}
MouseEvents == [button : Buttons, pos : Positions]

\* match_mouse_event(eventType)
match_mouse_event(eventType) ==
  CASE eventType = "mousedown" -> "FL_PUSH"
    [] eventType = "mouseup" -> "FL_RELEASE"
    [] eventType = "mousemove" -> "FL_MOVE"
    [] eventType = "mouseenter" -> "FL_ENTER"
    [] eventType = "mouseleave" -> "FL_LEAVE"
    [] eventType = "dblclick" -> "FL_PUSH"
    [] eventType = "click" -> "FL_PUSH"
    [] OTHER -> "0"

\* the button bits handle_mouse_ev sets for a push and clears for a release
ButtonBit(b) ==
  CASE b = 0 -> FL_BUTTON1
    [] b = 1 -> FL_BUTTON2
    [] b = 2 -> FL_BUTTON3

\* the value handle_mouse_ev stores in Fl::e_state
mouse_state(flev, b) ==
  LET state == KeepModifiers(e_state)
  IN IF flev = "FL_PUSH" THEN SetBit(state, ButtonBit(b))
     ELSE IF flev = "FL_RELEASE" THEN ClearBit(state, ButtonBit(b))
     ELSE state

\* handle_mouse_ev(eventType, event, data), up to and including Fl::handle
handle_mouse_ev(eventType, event) ==
  LET flev == match_mouse_event(eventType)
  IN /\ e_xy' = event.pos
     /\ e_root' = event.pos
     /\ e_clicks' = IF flev = "FL_PUSH"
                       THEN (IF eventType = "dblclick" THEN 1 ELSE 0)
                       ELSE e_clicks
     /\ e_is_click' = IF flev = "FL_PUSH" THEN 1
                       ELSE IF flev = "FL_RELEASE"
                                 /\ (Abs(event.pos.x - pxy.x) > 5 \/ Abs(event.pos.y - pxy.y) > 5)
                         THEN 0
                       ELSE e_is_click
     /\ pxy' = IF flev = "FL_PUSH" THEN event.pos ELSE pxy
     /\ e_keysym' = IF flev \in {"FL_PUSH", "FL_RELEASE"}
                       THEN FL_Button + event.button + 1
                       ELSE e_keysym
     /\ e_state' = mouse_state(flev, event.button)
     /\ dispatched' = [kind |-> "mouse", ev |-> flev, event |-> event]
     /\ held' = IF flev = "FL_PUSH" THEN held \cup {event.button}
                 ELSE IF flev = "FL_RELEASE" THEN held \ {event.button}
                 ELSE held
     /\ pushes' = IF flev = "FL_PUSH" THEN [pushes EXCEPT ![event.button] = @ + 1]
                   ELSE IF flev = "FL_RELEASE" THEN [pushes EXCEPT ![event.button] = 0]
                   ELSE pushes
     /\ UNCHANGED e_d
     /\ UNCHANGED <<gfxVars, filterVars, chooserVars, screenVars, imgVars, winVars,
               waitVars, fontVars, surfVars>>

\* handle_wheel_ev(eventType, event, data): deltas are multiples of 80
handle_wheel_ev(pos, delta) ==
  /\ e_xy' = pos
  /\ e_root' = pos
  /\ e_d' = [x |-> delta.x \div 80, y |-> delta.y \div 80]
  /\ dispatched' = [kind |-> "wheel", ev |-> "FL_MOUSEWHEEL", event |-> [pos |-> pos]]
  /\ UNCHANGED <<e_state, e_keysym, e_clicks, e_is_click, pxy, held, pushes>>
  /\ UNCHANGED <<gfxVars, filterVars, chooserVars, screenVars, imgVars, winVars,
               waitVars, fontVars, surfVars>>

MouseDown ==
  \E event \in MouseEvents, quick \in BOOLEAN :
    /\ streak < 2 /\ event.button \notin down
    /\ handle_mouse_ev("mousedown", event)
    /\ down' = down \cup {event.button}
    /\ streak' = IF quick /\ event.button = 0 THEN streak ELSE 0

MouseUp ==
  \E event \in MouseEvents :
    /\ streak < 2 /\ event.button \in down
    /\ handle_mouse_ev("mouseup", event)
    /\ down' = down \ {event.button}
    /\ streak' = IF event.button = 0 THEN streak + 1 ELSE streak

DblClick ==
  \E pos \in Positions :
    /\ streak = 2
    /\ handle_mouse_ev("dblclick", [button |-> 0, pos |-> pos])
    /\ streak' = 0
    /\ UNCHANGED down

MouseMove ==
  \E pos \in Positions, eventType \in {"mousemove", "mouseenter", "mouseleave"} :
    /\ streak < 2
    /\ handle_mouse_ev(eventType, [button |-> 0, pos |-> pos])
    /\ UNCHANGED <<down, streak>>

Wheel ==
  \E pos \in Positions, delta \in {[x |-> 0, y |-> 80], [x |-> 0, y |-> -160]} :
    /\ streak < 2
    /\ handle_wheel_ev(pos, delta)
    /\ UNCHANGED <<down, streak>>

InitMouse ==
  InputIdle /\ ImgIdle /\ WinIdle /\ GfxInit /\ FilterIdle /\ ChooserInit /\ ScreenInit
  /\ WaitIdle /\ FontIdle /\ SurfIdle

NextMouse == MouseDown \/ MouseUp \/ DblClick \/ MouseMove \/ Wheel

SpecMouse == InitMouse /\ [][NextMouse]_vars

(***************************************************************************)
(* Keyboard handler.  A key string (KeyboardEvent.key) is the sequence of  *)
(* its characters.                                                         *)
(***************************************************************************)
special_keys ==
  <<<<"B", "a", "c", "k", "s", "p", "a", "c", "e">>,
     <<"T", "a", "b">>,
     <<"I", "s", "o", "K", "e", "y">>,
     <<"E", "n", "t", "e", "r">>,
     <<"P", "a", "u", "s", "e">>,
     <<"S", "c", "r", "o", "l", "l", "L", "o", "c", "k">>,
     <<"E", "s", "c", "a", "p", "e">>,
     <<"K", "a", "n", "a">>,
     <<"E", "i", "s", "u">>,
     <<"Y", "e", "n">>,
     <<"J", "I", "S", "U", "n", "d", "e", "r", "s", "c", "o", "r", "e">>,
     <<"H", "o", "m", "e">>,
     <<"A", "r", "r", "o", "w", "L", "e", "f", "t">>,
     <<"A", "r", "r", "o", "w", "U", "p">>,
     <<"A", "r", "r", "o", "w", "R", "i", "g", "h", "t">>,
     <<"A", "r", "r", "o", "w", "D", "o", "w", "n">>,
     <<"P", "a", "g", "e", "U", "p">>,
     <<"P", "a", "g", "e", "D", "o", "w", "n">>,
     <<"E", "n", "d">>,
     <<"P", "r", "i", "n", "t">>,
     <<"I", "n", "s", "e", "r", "t">>,
     <<"M", "e", "n", "u">>,
     <<"H", "e", "l", "p">>,
     <<"N", "u", "m", "L", "o", "c", "k">>,
     <<"K", "P">>,
     <<"K", "P", "E", "n", "t", "e", "r">>,
     <<"K", "P", "L", "a", "s", "t">>,
     <<"F">>,
     <<"F", "L", "a", "s", "t">>,
     <<"S", "h", "i", "f", "t">>,
     <<"S", "h", "i", "f", "t">>,
     <<"C", "o", "n", "t", "r", "o", "l">>,
     <<"C", "o", "n", "t", "r", "o", "l">>,
     <<"C", "a", "p", "s", "L", "o", "c", "k">>,
     <<"M", "e", "t", "a">>,
     <<"M", "e", "t", "a">>,
     <<"A", "l", "t">>,
     <<"A", "l", "t">>,
     <<"D", "e", "l", "e", "t", "e">>,
     <<"A", "l", "t", "G", "r">>>>

special_keys_equiv ==
  <<
     "FL_BackSpace", "FL_Tab", "FL_Iso_Key", "FL_Enter", "FL_Pause",
     "FL_Scroll_Lock", "FL_Escape", "FL_Kana", "FL_Eisu", "FL_Yen",
     "FL_JIS_Underscore", "FL_Home", "FL_Left", "FL_Up", "FL_Right",
     "FL_Down", "FL_Page_Up", "FL_Page_Down", "FL_End", "FL_Print",
     "FL_Insert", "FL_Menu", "FL_Help", "FL_Num_Lock", "FL_KP",
     "FL_KP_Enter", "FL_KP_Last", "FL_F", "FL_F_Last", "FL_Shift_L",
     "FL_Shift_R", "FL_Control_L", "FL_Control_R", "FL_Caps_Lock",
     "FL_Meta_L", "FL_Meta_R", "FL_Alt_L", "FL_Alt_R", "FL_Delete",
     "FL_Alt_Gr"
  >>

\* special_key(k): index of the first table entry equal to k, -1 if none
special_key(k) ==
  IF \E i \in 1 .. Len(special_keys) : special_keys[i] = k
    THEN (CHOOSE i \in 1 .. Len(special_keys) :
            /\ special_keys[i] = k
            /\ \A j \in 1 .. (i - 1) : special_keys[j] # k) - 1
    ELSE -1

\* the keys pressed: characters, keys of the table, and named keys the table
\* does not hold
Keys ==
  {<<"a">>,
   <<"A">>,
   <<"1">>,
   <<" ">>,
   <<"E", "n", "t", "e", "r">>,
   <<"S", "h", "i", "f", "t">>,
   <<"A", "r", "r", "o", "w", "L", "e", "f", "t">>,
   <<"D", "e", "l", "e", "t", "e">>,
   <<"F", "1">>,
   <<"D", "e", "a", "d">>}

KeyEvents ==
  [key : Keys, ctrlKey : BOOLEAN, altKey : BOOLEAN, shiftKey : BOOLEAN, metaKey : BOOLEAN]

\* state |= bit when the event's flag is set
OrIf(n, flag, bit) == IF flag THEN SetBit(n, bit) ELSE n

\* match_key_event(eventType)
match_key_event(eventType) ==
  CASE eventType \in {"keypress", "keydown"} -> "FL_KEYDOWN"
    [] eventType = "keyup" -> "FL_KEYUP"
    [] OTHER -> "0"

\* set_keysym_and_state(keyEvent)
set_keysym_and_state(keyEvent) ==
  /\ IF special_key(keyEvent.key) >= 0
       THEN /\ e_keysym' = special_keys_equiv[special_key(keyEvent.key) + 1]
            /\ e_length' = 0
            /\ e_text' = Ptr(<<>>)
       ELSE /\ e_keysym' = keyEvent.key[1]
            /\ e_length' = Len(keyEvent.key)
            /\ e_text' = Ptr(keyEvent.key)
  /\ e_state' = OrIf(OrIf(OrIf(OrIf(KeepModifiers(e_state),
                                    keyEvent.ctrlKey, FL_CTRL),
                               keyEvent.altKey, FL_ALT),
                          keyEvent.shiftKey, FL_SHIFT),
                     keyEvent.metaKey, FL_META)

\* handle_key_ev(eventType, event, data), up to and including Fl::handle
handle_key_ev(eventType, event) ==
  /\ set_keysym_and_state(event)
  /\ dispatched' = [kind |-> "key", ev |-> match_key_event(eventType), event |-> event]
  /\ UNCHANGED <<e_clicks, e_is_click, e_xy, e_root, pxy, e_d, down, streak, held, pushes>>
  /\ UNCHANGED <<sel, browserClip, pasteLog, heapFault, lastCopy, geomVars, scrOp>>
  /\ UNCHANGED <<gfxVars, filterVars, chooserVars, imgVars, winVars,
               waitVars, fontVars, surfVars>>

KeyDown == \E event \in KeyEvents : handle_key_ev("keydown", event)
KeyUp == \E event \in KeyEvents : handle_key_ev("keyup", event)

InitKeys ==
  InputIdle /\ ImgIdle /\ WinIdle /\ GfxInit /\ FilterIdle /\ ChooserInit /\ ScreenInit
  /\ WaitIdle /\ FontIdle /\ SurfIdle

NextKeys == KeyDown \/ KeyUp

SpecKeys == InitKeys /\ [][NextKeys]_vars

(***************************************************************************)
(* Window driver: top-level windows (no parent, no tooltip window) and     *)
(* their divs.  hide_common() is the base class's: it clears the visible   *)
(* flag, unlinks the Fl_X and zeroes the window's flx_.                    *)
(***************************************************************************)
CallbackEvents ==
  <<"mousedown", "mouseup", "mousemove", "mouseenter", "mouseleave", "dblclick",
    "wheel", "keydown", "keyup">>

\* the handler REGISTER_MOUSE_EV, REGISTER_WHEEL_EV, REGISTER_KEY_EV install
HandlerOf(ev) ==
  IF ev = "wheel" THEN "handle_wheel_ev"
  ELSE IF ev \in {"keydown", "keyup"} THEN "handle_key_ev"
  ELSE "handle_mouse_ev"

\* emscripten_set_<ev>_callback(canvasid, pWindow, true, handler) for the
\* events evs[i ..]: one handler per target and event
RECURSIVE RegisterFrom(_, _, _, _)
RegisterFrom(h, id, evs, i) ==
  IF i > Len(evs) THEN h
  ELSE RegisterFrom({r \in h : ~(r.target = id /\ r.ev = evs[i])}
                      \cup {[target |-> id, ev |-> evs[i], fn |-> HandlerOf(evs[i])]},
                    id, evs, i + 1)

\* UNREGISTER_EV for all events but the last of the list
RECURSIVE UnregisterFrom_short(_, _, _, _)
UnregisterFrom_short(h, id, evs, i) ==
  IF i >= Len(evs) THEN h
  ELSE UnregisterFrom_short({r \in h : ~(r.target = id /\ r.ev = evs[i])}, id, evs, i + 1)

\* emscripten_set_<ev>_callback(canvasid, pWindow, true, NULL) for the events
\* evs[i ..]
RECURSIVE UnregisterFrom(_, _, _, _)
UnregisterFrom(h, id, evs, i) ==
  IF i > Len(evs) THEN h
  ELSE UnregisterFrom({r \in h : ~(r.target = id /\ r.ev = evs[i])}, id, evs, i + 1)

\* Fl_Window_Driver::find(xid): the window whose Fl_X has this xid, 0 if none
fl_em_find(xid) ==
  IF \E k \in 1 .. Len(xlist) : xlist[k].xid = xid
    THEN xlist[CHOOSE k \in 1 .. Len(xlist) : xlist[k].xid = xid].w
    ELSE 0

\* makeWindow() for window w: the div with decoration and canvas, a new Fl_X
\* at the head of the list, the nine callbacks, ID += 1
makeWindow(w) ==
  /\ ID <= MaxXid
  /\ dom' = [dom EXCEPT ![ID] =
               [exists |-> TRUE, hidden |-> FALSE,
                left |-> win[w].x,
                top |-> IF win[w].border THEN win[w].y - DecorHeight ELSE win[w].y,
                cw |-> win[w].w, ch |-> win[w].h,
                decorHidden |-> ~win[w].border]]
  /\ win' = [win EXCEPT ![w].xid = ID, ![w].visible = TRUE]
  /\ xlist' = <<[xid |-> ID, w |-> w]>> \o xlist
  /\ fl_window' = ID
  /\ eventHandlers' = RegisterFrom(eventHandlers, ID, CallbackEvents, 1)
  /\ ID' = ID + 1
  /\ used' = used \cup {ID}
  /\ wOp' = [op |-> "makeWindow", w |-> w, xid |-> ID, usedBefore |-> used,
              divExisted |-> dom[ID].exists]

\* show(): makeWindow() when not shown, otherwise the div is unhidden
show_window(w) ==
  IF win[w].xid = 0
    THEN makeWindow(w)
    ELSE /\ dom' = [dom EXCEPT ![win[w].xid].hidden = FALSE]
         /\ wOp' = [op |-> "show"]
         /\ UNCHANGED <<win, xlist, eventHandlers, ID, fl_window, used>>

\* hide() of a shown window: delete_div(xid), hide_common(), fl_window reset
hide(w) ==
  LET xid == win[w].xid
  IN /\ xid # 0
     /\ eventHandlers' = IF dom[xid].exists
                            THEN UnregisterFrom(eventHandlers, xid, CallbackEvents, 1)
                            ELSE eventHandlers
     /\ dom' = [dom EXCEPT ![xid] = NoDiv]
     /\ win' = [win EXCEPT ![w].visible = FALSE, ![w].xid = 0]
     /\ xlist' = SelectSeq(xlist, LAMBDA e : e.xid # xid)
     /\ fl_window' = IF fl_window = xid THEN 0 ELSE fl_window
     /\ wOp' = [op |-> "hide", w |-> w, xid |-> xid]
     /\ UNCHANGED <<ID, used>>

\* resize(X, Y, W, H) of window w (not a rescale) on the window table wn and
\* the document dm: the new table and document
resize(wn, dm, w, X, Y, W, H) ==
  LET is_a_move == X # wn[w].x \/ Y # wn[w].y
      is_a_resize == W # wn[w].w \/ H # wn[w].h
      xid == wn[w].xid
  IN IF ~is_a_move /\ ~is_a_resize THEN [win |-> wn, dom |-> dm]
     ELSE IF is_a_resize
       THEN [win |-> [wn EXCEPT ![w].x = X, ![w].y = Y, ![w].w = W, ![w].h = H],
             dom |-> IF xid # 0 /\ dm[xid].exists
                       THEN [dm EXCEPT ![xid].cw = W, ![xid].ch = H,
                                       ![xid].left = X, ![xid].top = Y]
                       ELSE dm]
     ELSE [win |-> [wn EXCEPT ![w].x = X, ![w].y = Y], dom |-> dm]

\* fltk_em_track_div(xid, x, y): win->position(x, y + 30), which is
\* resize(x, y + 30, w(), h())
fltk_em_track_div(wn, dm, xid, x, y) ==
  LET w == fl_em_find(xid)
  IN resize(wn, dm, w, x, y + DecorHeight, wn[w].w, wn[w].h)

WinPositions == {[x |-> 0, y |-> DecorHeight], [x |-> 40, y |-> 70]}
WinSizes == {[w |-> 1, h |-> 1], [w |-> 2, h |-> 2]}
DragTargets == {[left |-> 10, top |-> 10]}

OthersIdleWindow ==
  UNCHANGED <<gfxVars, filterVars, chooserVars, screenVars, imgVars, inputVars,
               waitVars, fontVars, surfVars>>

ShowWindow == \E w \in Windows : show_window(w) /\ OthersIdleWindow

HideWindow == \E w \in Windows : hide(w) /\ OthersIdleWindow

ResizeWindow ==
  \E w \in Windows, pos \in WinPositions, size \in WinSizes :
    LET r == resize(win, dom, w, pos.x, pos.y, size.w, size.h)
    IN /\ win' = r.win
       /\ dom' = r.dom
       /\ wOp' = [op |-> "resize"]
       /\ UNCHANGED <<xlist, eventHandlers, ID, fl_window, used>>
       /\ OthersIdleWindow

\* the user drags the decoration of a visible div: elementDrag moves the div
\* and calls fltk_em_track_div with its new offsets
DragWindow ==
  \E id \in 1 .. MaxXid, to \in DragTargets :
    /\ dom[id].exists /\ ~dom[id].hidden /\ ~dom[id].decorHidden
    /\ LET moved == [dom EXCEPT ![id].left = to.left, ![id].top = to.top]
           r == fltk_em_track_div(win, moved, id, to.left, to.top)
       IN /\ win' = r.win
          /\ dom' = r.dom
    /\ wOp' = [op |-> "drag"]
    /\ UNCHANGED <<xlist, eventHandlers, ID, fl_window, used>>
    /\ OthersIdleWindow

\* the user clicks the decoration's close button: div.hidden = true
CloseClick ==
  \E id \in 1 .. MaxXid :
    /\ dom[id].exists /\ ~dom[id].hidden /\ ~dom[id].decorHidden
    /\ dom' = [dom EXCEPT ![id].hidden = TRUE]
    /\ wOp' = [op |-> "closewin"]
    /\ UNCHANGED <<win, xlist, eventHandlers, ID, fl_window, used>>
    /\ OthersIdleWindow

InitWindow ==
  /\ win \in [Windows -> {NewWindow(TRUE), NewWindow(FALSE)}]
  /\ xlist = <<>>
  /\ dom = [id \in 1 .. MaxXid |-> NoDiv]
  /\ eventHandlers = {}
  /\ ID = 1
  /\ fl_window = 0
  /\ used = {}
  /\ wOp = [op |-> "none"]
  /\ ImgIdle /\ InputIdle /\ GfxInit /\ FilterIdle /\ ChooserInit /\ ScreenInit
  /\ WaitIdle /\ FontIdle /\ SurfIdle

NextWindow == ShowWindow \/ HideWindow \/ ResizeWindow \/ DragWindow \/ CloseClick

SpecWindow == InitWindow /\ [][NextWindow]_vars

(***************************************************************************)
(* Fl_Emscripten_System_Driver::wait and the browser callbacks.  The        *)
(* program is single threaded: emscripten_sleep(0) gives control back to    *)
(* the browser, which may run the callbacks registered by makeWindow before *)
(* the sleeping call goes on.  Fl::handle delivers the event to a widget,   *)
(* which either returns or runs a loop of its own around Fl::wait() (a      *)
(* menu window, a dialog: the comment at lines 25-26).                      *)
(***************************************************************************)
\* the values Fl_System_Driver::wait(v) hands back
WaitResults == {0, 1}
\* handle_mouse_ev, handle_wheel_ev, handle_key_ev
Callbacks == {"handle_mouse_ev", "handle_wheel_ev", "handle_key_ev"}

WaitFrame(ret) == [fn |-> "wait", ret |-> ret]
CallbackFrame(cb) == [fn |-> cb, ret |-> 0]
Sleeping(fr) == fr.fn = "wait"
Top == frames[Len(frames)]
\* the browser's event loop runs: nothing of the program is running
Yielded == IF frames = <<>> THEN TRUE ELSE Sleeping(Top)
\* code of the program runs: the main program or a widget inside Fl::handle
Running == IF frames = <<>> THEN TRUE ELSE ~Sleeping(Top)

\* wait(v) up to emscripten_sleep(0): the base class's wait, then the sleep
wait(ret) ==
  /\ Running
  /\ Len(frames) < MaxDepth
  /\ frames' = Append(frames, WaitFrame(ret))
  /\ sysOp' = [op |-> "wait"]
  /\ UNCHANGED flushes

\* wait(v) after emscripten_sleep(0): Fl::flush(); return ret
wait_resume ==
  /\ frames # <<>> /\ Sleeping(Top)
  /\ flushes < MaxFlushes
  /\ frames' = SubSeq(frames, 1, Len(frames) - 1)
  /\ flushes' = flushes + 1
  /\ sysOp' = [op |-> "resume"]

\* the browser calls a registered callback, which calls Fl::handle
callback(cb) ==
  /\ Yielded
  /\ Len(frames) < MaxDepth
  /\ frames' = Append(frames, CallbackFrame(cb))
  /\ sysOp' = [op |-> cb]
  /\ UNCHANGED flushes

\* Fl::handle returns and the callback with it
callback_return ==
  /\ frames # <<>> /\ ~Sleeping(Top)
  /\ frames' = SubSeq(frames, 1, Len(frames) - 1)
  /\ sysOp' = [op |-> "return"]
  /\ UNCHANGED flushes

OthersIdleWait ==
  UNCHANGED <<gfxVars, filterVars, chooserVars, screenVars, imgVars, inputVars,
              winVars, fontVars, surfVars>>

Wait == \E ret \in WaitResults : wait(ret) /\ OthersIdleWait
Resume == wait_resume /\ OthersIdleWait
BrowserEvent == \E cb \in Callbacks : callback(cb) /\ OthersIdleWait
HandlerReturns == callback_return /\ OthersIdleWait

InitWait ==
  /\ WaitIdle
  /\ ImgIdle /\ InputIdle /\ WinIdle /\ FontIdle /\ SurfIdle
  /\ GfxInit /\ FilterIdle /\ ChooserInit /\ ScreenInit

NextWait == Wait \/ Resume \/ BrowserEvent \/ HandlerReturns

SpecWait == InitWait /\ [][NextWait]_vars

(***************************************************************************)
(* Fl_Emscripten_Graphics_Driver::set_fonts.  A font name is a sequence of  *)
(* strings: <<name>> as the caller gave it, <<style, family>> for a face    *)
(* written by snprintf(fname, lfont, "<style>%s", familyname).              *)
(***************************************************************************)
Families == <<"Arial", "Courier", "Times", "Verdana">>
\* what queryLocalFonts() may return: the fonts in the browser's order
FamilyLists == {SubSeq(Families, a, b) : a \in 1 .. 2, b \in 0 .. MaxFamilies}
Permissions == {"granted", "prompt", "denied"}
Browsers == [api : BOOLEAN, permission : Permissions, families : FamilyLists]
\* the argument of set_fonts
FontNames == {"*", "-*"}
\* fl_fonts[i].name of the built-in table
BuiltInName == <<"fl_fonts[i].name">>
\* the style letters of the four faces, in the order they are registered
Styles == <<" ", "B", "I", "P">>

\* Fl::set_font(fnum, name)
set_font(tbl, fnum, nm) == [tbl EXCEPT ![fnum] = nm]

\* init_built_in_fonts(): the first call sets the fonts below FL_FREE_FONT
init_built_in_fonts(tbl, done) ==
  IF done THEN tbl
  ELSE [i \in Fonts |-> IF i < FL_FREE_FONT THEN BuiltInName ELSE tbl[i]]

\* the EM_ASM_INT block: has_api is false when the block returns, since the
\* function given to then() runs only after the running script has finished;
\* the block leaves that function queued
query_has_api(br) ==
  LET has_api == FALSE
      queued == IF br.api THEN <<[state |-> br.permission]>> ELSE <<>>
  IN  [ret |-> has_api, queued |-> queued]

\* the loop over the fonts returned by queryLocalFonts(): four faces a font
RECURSIVE add_faces(_, _, _, _)
add_faces(st, fams, i, k) ==
  IF i > Len(fams) THEN st
  ELSE IF k > Len(Styles) THEN add_faces(st, fams, i + 1, 1)
  ELSE LET face == <<Styles[k], fams[i]>>
       IN  add_faces([tbl |-> set_font(st.tbl, st.count + FL_FREE_FONT, face),
                      vec |-> Append(st.vec, face),
                      count |-> st.count + 1],
                     fams, i, k + 1)

set_fonts(nm) ==
  LET tbl0 == init_built_in_fonts(fl_fonts, built_in_done)
      q == query_has_api(browser)
      has_query_fonts_api == q.ret
      en == add_faces([tbl |-> tbl0, vec |-> built_in_table, count |-> 0],
                      browser.families, 1, 1)
  IN  /\ built_in_done' = TRUE
      /\ jobs' = jobs \o q.queued
      /\ IF ~has_query_fonts_api
         THEN /\ fl_fonts' = set_font(tbl0, FL_FREE_FONT + 1, <<nm>>)
              /\ built_in_table' = Append(built_in_table, <<nm>>)
              /\ fontOp' = [op |-> "set_fonts", ret |-> FL_FREE_FONT + 1]
         ELSE /\ fl_fonts' = en.tbl
              /\ built_in_table' = en.vec
              /\ fontOp' = [op |-> "set_fonts", ret |-> FL_FREE_FONT + en.count]
      /\ UNCHANGED browser

\* the browser runs the function given to then(): it assigns the has_api of
\* a block that has returned already
permission_then ==
  /\ jobs # <<>>
  /\ jobs' = Tail(jobs)
  /\ fontOp' = [op |-> "then", ret |-> fontOp.ret]
  /\ UNCHANGED <<browser, fl_fonts, built_in_table, built_in_done>>

OthersIdleFont ==
  UNCHANGED <<gfxVars, filterVars, chooserVars, screenVars, imgVars, inputVars,
              winVars, waitVars, surfVars>>

SetFonts ==
  /\ Len(built_in_table) < MaxFontCalls
  /\ \E nm \in FontNames : set_fonts(nm)
  /\ OthersIdleFont

PermissionThen == permission_then /\ OthersIdleFont

InitFont ==
  /\ browser \in Browsers
  /\ FontTablesIdle
  /\ ImgIdle /\ InputIdle /\ WinIdle /\ WaitIdle /\ SurfIdle
  /\ GfxInit /\ FilterIdle /\ ChooserInit /\ ScreenInit

NextFont == SetFonts \/ PermissionThen

SpecFont == InitFont /\ [][NextFont]_vars

(***************************************************************************)
(* Drawing between clip operations: rect() adds its rectangle to the        *)
(* context's current path and strokes it.                                   *)
(***************************************************************************)
\* ctx.stroke(): draws the current path, which stays as it is
CtxStroke(c) == c

\* Fl_Emscripten_Graphics_Driver::rect(x, y, w, h)
rect(x, y, w, h) ==
  /\ ctxt' = CtxStroke(CtxRect(ctxt, 2 * x, 2 * y, 2 * (w - 1), 2 * (h - 1)))
  /\ lastOp' = "rect"
  /\ nc' = NoQuery
  /\ UNCHANGED <<emclip_, what, gap_, m, depth0, beginState>>
  /\ UNCHANGED <<filterVars, chooserVars, screenVars, lateVars>>

\* the rectangles drawn: squares of two pixels and more on the diagonal
DrawInputs == {r \in ClipInputs : r.w > 1}

Rect == \E r \in DrawInputs : rect(r.x, r.y, r.w, r.h)

NextClipDraw == PushClip \/ PushNoClip \/ PopClip \/ Rect

SpecClipDraw == InitClip /\ [][NextClipDraw]_vars

(***************************************************************************)
(* Image surface: translate and untranslate.  set_current() hands the       *)
(* offscreen context to the graphics driver, so ctxt is that context and    *)
(* scale() acts on it.                                                      *)
(***************************************************************************)
\* ctx.translate(x, y) with x, y in whole pixels
CtxTranslate(c, x, y) ==
  LET t == c.state.ctm
  IN [c EXCEPT !.state.ctm =
        <<t[1], t[2], t[3], t[4],
          2 * (t[1] * x + t[3] * y) + t[5], 2 * (t[2] * x + t[4] * y) + t[6]>>]

\* ctx.setTransform(a, b, c, d, e, f): the transform is replaced
CtxSetTransform(c, mt) ==
  [c EXCEPT !.state.ctm = <<mt[1], mt[2], mt[3], mt[4], 2 * mt[5], 2 * mt[6]>>]

\* the offsets translate is called with
Offsets == {<<1, 0>>, <<0, 1>>, <<1, 2>>}

\* Fl_Emscripten_Image_Surface_Driver::translate(x, y)
translate(x, y) ==
  /\ Len(surface.pending) < MaxTranslate
  /\ ctxt' = CtxTranslate(ctxt, x, y)
  /\ surface' = [surface EXCEPT !.pending = Append(@, ctxt.state.ctm)]
  /\ lastOp' = "translate"

\* Fl_Emscripten_Image_Surface_Driver::untranslate()
untranslate ==
  /\ surface.pending # <<>>
  /\ ctxt' = CtxSetTransform(ctxt, <<1, 0, 0, 1, 0, 0>>)
  /\ surface' = [pending |-> SubSeq(surface.pending, 1, Len(surface.pending) - 1),
                 before |-> surface.pending[Len(surface.pending)]]
  /\ lastOp' = "untranslate"

SurfaceFrame ==
  /\ UNCHANGED <<emclip_, what, gap_, m, depth0, nc, beginState>>
  /\ UNCHANGED <<filterVars, chooserVars, screenVars, imgVars, inputVars, winVars,
                 waitVars, fontVars>>

Translate == \E q \in Offsets : translate(q[1], q[2]) /\ SurfaceFrame
Untranslate == untranslate /\ SurfaceFrame
\* scale() between the brackets of translate and untranslate
SurfaceScale == surface.pending = <<>> /\ Scale

\* set_current(): context(offscreen) on the surface's fresh context
InitSurface == GfxInit /\ FilterIdle /\ ChooserInit /\ ScreenInit /\ LateIdle

NextSurface == SurfaceScale \/ Translate \/ Untranslate

SpecSurface == InitSurface /\ [][NextSurface]_vars

(***************************************************************************)
(* Claims about the clip stack                                             *)
(***************************************************************************)
IsRect(e) == e.w >= 0
PixelsOf(e) == {<<i, j>> : i \in e.x .. (e.x + e.w - 1), j \in e.y .. (e.y + e.h - 1)}
TopIsRect == emclip_ # <<>> /\ IsRect(emclip_[Len(emclip_)])

\* C1: after any sequence of push_clip, push_no_clip and pop_clip calls the
\* canvas save/restore stack depth equals its depth before the sequence plus
\* the number of entries on the driver's clip stack.
C1_CanvasDepthFollowsClipStack ==
  Len(ctxt.stack) = depth0 + Len(emclip_)

\* C2: push_clip(x, y, w, h) with w, h >= 0 makes the new top the geometric
\* intersection of (x, y, w, h) with the previous top when that is a rectangle
\* (an empty intersection stored with width 0 or height 0) and (x, y, w, h)
\* itself when the stack is empty or its top is the no-clip entry; every
\* rectangular entry lies inside the rectangular entry directly beneath it.
C2_PushClipIntersects ==
  /\ \A r \in Rects :
       LET e == NewEntry(emclip_, r.x, r.y, r.w, r.h)
       IN IF TopIsRect
            THEN LET meet == PixelsOf(r) \cap PixelsOf(emclip_[Len(emclip_)])
                 IN /\ PixelsOf(e) = meet
                    /\ e.w >= 0 /\ e.h >= 0
                    /\ (meet = {} => (e.w = 0 \/ e.h = 0))
            ELSE e = r
  /\ \A i \in 2 .. Len(emclip_) :
       (IsRect(emclip_[i]) /\ IsRect(emclip_[i - 1]))
         => PixelsOf(emclip_[i]) \subseteq PixelsOf(emclip_[i - 1])
  /\ (lastOp = "push_clip" => IsRect(emclip_[Len(emclip_)]))

\* C2 witness: a push_clip has stored a non-empty intersection that is
\* strictly smaller than the rectangle beneath it.
C2_Witness ==
  /\ lastOp = "push_clip"
  /\ Len(emclip_) = 2
  /\ IsRect(emclip_[1])
  /\ PixelsOf(emclip_[2]) # {}
  /\ PixelsOf(emclip_[2]) # PixelsOf(emclip_[1])

\* C3: for every rectangle with w > 0 and h > 0, not_clipped returns 0 exactly
\* when the rectangle has an empty intersection with the rectangle on top of
\* the clip stack, and 1 whenever the stack is empty or its top is no-clip.
C3_NotClippedIffIntersects ==
  (nc.ret # -1 /\ nc.w > 0 /\ nc.h > 0)
    => IF TopIsRect
         THEN (nc.ret = 0) <=>
                (PixelsOf(nc) \cap PixelsOf(emclip_[Len(emclip_)]) = {})
         ELSE nc.ret = 1

(***************************************************************************)
(* Claims about path brackets                                              *)
(***************************************************************************)
EndOps == {"end_points", "end_line", "end_loop", "end_polygon", "end_complex_polygon"}

\* the transform that was in force at begin_*, composed with the matrix m
BeginTransformTimesM == concat([ctxt EXCEPT !.state.ctm = beginState.ctm]).state.ctm

\* C4: in LINE, LOOP or POLYGON mode transformed_vertex(x, y) adds the point to
\* the current path and leaves the canvas transform equal to the transform
\* that was in force when begin_* was called composed with the matrix m.
C4_TransformedVertexKeepsTransform ==
  (lastOp = "transformed_vertex" /\ what \in {"LINE", "LOOP", "POLYGON"})
    => /\ ctxt.path.segs # <<>>
       /\ ctxt.path.segs[Len(ctxt.path.segs)].op \in {"moveTo", "lineTo"}
       /\ ctxt.state.ctm = BeginTransformTimesM

\* C5: after the end_* call that closes a path bracket the canvas stack depth
\* and the canvas transform equal their values before begin_*, the path mode
\* is NONE and gap_ == 1.
C5_BracketRestoresCanvas ==
  (lastOp \in EndOps)
    => /\ Len(ctxt.stack) = beginState.depth
       /\ ctxt.state.ctm = beginState.ctm
       /\ what = "NONE"
       /\ gap_ = 1

\* C5 witness: a bracket that drew two elements under a scaled context and a
\* non-identity matrix has been closed.
C5_Witness ==
  /\ lastOp \in EndOps
  /\ Len(ctxt.path.segs) >= 2
  /\ ctxt.state.ctm # Identity
  /\ m # Identity

(***************************************************************************)
(* Claims about parse_filter                                               *)
(***************************************************************************)
\* index of the first tab or newline of s at or after i, Len(s) + 1 if none
RECURSIVE ExtEnd(_, _)
ExtEnd(s, i) ==
  IF i > Len(s) \/ s[i] \in {TAB, NL} THEN i ELSE ExtEnd(s, i + 1)

\* the texts that follow each '*' of s, from index i on
RECURSIVE ExtsFrom(_, _)
ExtsFrom(s, i) ==
  IF i > Len(s) THEN <<>>
  ELSE IF s[i] = "*"
    THEN <<SubSeq(s, i + 1, ExtEnd(s, i + 1) - 1)>> \o ExtsFrom(s, ExtEnd(s, i + 1) + 1)
    ELSE ExtsFrom(s, i + 1)

RECURSIVE JoinWithSpaces(_)
JoinWithSpaces(l) ==
  IF l = <<>> THEN <<>>
  ELSE IF Len(l) = 1 THEN l[1]
  ELSE l[1] \o <<" ">> \o JoinWithSpaces(Tail(l))

\* C6: parse_filter returns the text following each '*' up to the next tab,
\* newline or end of string, in order, joined by single spaces.
C6_ParseFilterResult ==
  (pcF = "done") => parsed = JoinWithSpaces(ExtsFrom(f, 1))

(***************************************************************************)
(* Claims about the file chooser                                           *)
(***************************************************************************)
\* C7: a name returned by filename() or filename(i) of a chooser after a
\* successful show() is found by fl_read_to_string, fl_read_to_binary and
\* fl_write_to_file, and the handle found is the one picked in that show(),
\* also after a different chooser has been shown in between.
C7_ReturnedNameFindsItsHandle ==
  (io.fn # "none")
    => /\ io.idx # -1
       /\ filehandles[io.idx + 1] = chooser[io.c].picked[io.i + 1]

(***************************************************************************)
(* Claims about the screen driver                                          *)
(***************************************************************************)
\* C8: after construction, for every screen index n (valid or not),
\* screen_xywh(X, Y, W, H, n) assigns X = 0, Y = 0, W = w() and H = h().
C8_ScreenXYWHAssignsTheScreen ==
  (scrOp.op = "screen_xywh")
    => out = [X |-> ScreenX, Y |-> ScreenY, W |-> ScreenW, H |-> ScreenH]

\* C9: text stored with copy(stuff, len, 0) is delivered by a later
\* paste(receiver, 0, plain text): the receiver gets exactly one FL_PASTE
\* event during which e_text holds the len stored bytes and e_length = len.
C9_SelectionPasteDelivers ==
  (scrOp.op = "paste" /\ scrOp.clipboard = 0 /\ scrOp.plain /\ lastCopy[0].set)
    => /\ Len(pasteLog) = 1
       /\ pasteLog[1].event = "FL_PASTE"
       /\ pasteLog[1].e_text = Ptr(lastCopy[0].bytes)
       /\ pasteLog[1].e_length = Len(lastCopy[0].bytes)

\* C10: after any sequence of copy() calls each selection buffer that has
\* been written has capacity at least its length + 1, holds the bytes of the
\* most recent copy to it followed by a 0 byte; a clipboard argument >= 2
\* counts as clipboard 1, and a call with a null pointer or a negative length
\* changes nothing (a buffer never written is still the null pointer).
C10_CopyKeepsBuffers ==
  \A c \in {0, 1} :
    IF lastCopy[c].set
      THEN /\ sel[c].cap >= sel[c].len + 1
           /\ sel[c].len = Len(lastCopy[c].bytes)
           /\ Len(sel[c].buf) >= sel[c].len + 1
           /\ SubSeq(sel[c].buf, 1, sel[c].len) = lastCopy[c].bytes
           /\ sel[c].buf[sel[c].len + 1] = 0
      ELSE sel[c] = [buf |-> <<>>, len |-> 0, cap |-> 0]

\* both buffers written, buffer 1 reallocated for the long text and then
\* reused for a shorter one, buffer 0 holding a text shorter than an earlier one
C10_Witness ==
  /\ scrOp.op = "copy"
  /\ lastCopy[0].set /\ lastCopy[1].set
  /\ sel[1].cap = Len(LongText) + Slack /\ sel[1].len < Len(LongText)
  /\ Len(sel[0].buf) > sel[0].len + 1

(***************************************************************************)
(* Claims about draw_fixed                                                 *)
(***************************************************************************)
\* bytes 4i .. 4i + 3 of the buffer handed to the canvas
PixelOut(i) == SubSeq(image_data.bytes, 4 * i + 1, 4 * i + 4)

\* component k (0-based) of source pixel i
Comp(i, k) == rgb.array[rgb.d * i + k + 1]

C12_ButtonBitFollowsPush ==
  (dispatched.kind \in {"mouse", "wheel"})
    => \A b \in Buttons :
         /\ b \in held => HasBit(e_state, ButtonBit(b))
         /\ (dispatched.ev = "FL_RELEASE" /\ dispatched.event.button = b)
              => ~HasBit(e_state, ButtonBit(b))

\* C14: FL_PUSH and FL_RELEASE dispatched for one button alternate: no two
\* FL_PUSH events are dispatched without an FL_RELEASE between them.
C14_PushReleaseAlternate ==
  \A b \in Buttons : pushes[b] <= 1

(***************************************************************************)
(* Claims about the keyboard handler                                       *)
(***************************************************************************)
\* C13: after each keyboard event is handled, the FL_SHIFT, FL_CTRL, FL_ALT
\* and FL_META bits of Fl::e_state equal the shiftKey, ctrlKey, altKey and
\* metaKey flags of that event, whatever events came before it.
C13_ModifiersFollowEvent ==
  (dispatched.kind = "key")
    => /\ HasBit(e_state, FL_SHIFT) = dispatched.event.shiftKey
       /\ HasBit(e_state, FL_CTRL) = dispatched.event.ctrlKey
       /\ HasBit(e_state, FL_ALT) = dispatched.event.altKey
       /\ HasBit(e_state, FL_META) = dispatched.event.metaKey

\* C15: a keyboard event produces text if and only if its key string is a
\* single printable character c: then e_keysym = c, e_text is c and
\* e_length = 1; for every other key e_length = 0 and e_text is empty.
C15_TextOnlyForCharacters ==
  (dispatched.kind = "key")
    => LET key == dispatched.event.key
       IN IF Len(key) = 1
            THEN e_keysym = key[1] /\ e_text = Ptr(key) /\ e_length = 1
            ELSE e_length = 0 /\ e_text = Ptr(<<>>)

(***************************************************************************)
(* Claims about the window driver                                          *)
(***************************************************************************)
HandlersOf(id) == {r \in eventHandlers : r.target = id}

C17_HiddenDivIsKnown ==
  \A w \in Windows :
    (win[w].xid # 0 /\ dom[win[w].xid].hidden) => ~win[w].visible

\* C18: for every shown window, after any sequence of show, drag and resize
\* calls, the div's left equals x() and its top equals y() - 30 with a
\* border, y() without.
C18_DivFollowsWindow ==
  \A w \in Windows :
    (win[w].xid # 0)
      => /\ dom[win[w].xid].left = win[w].x
         /\ dom[win[w].xid].top =
              IF win[w].border THEN win[w].y - DecorHeight ELSE win[w].y


\* the activations of wait() suspended in emscripten_sleep(0)
Suspended == {i \in DOMAIN frames : Sleeping(frames[i])}

\* C19: wait() is never re-entered: at most one activation of wait() is
\* suspended in emscripten_sleep(0) at any time; no browser callback that
\* runs during that sleep calls wait() again before the outer call has
\* resumed and flushed.
C19_WaitNotReentered ==
  Cardinality(Suspended) <= 1


\* the browser lets the page enumerate the local fonts
LocalFontsAllowed ==
  browser.api /\ browser.permission \in {"granted", "prompt"}

\* the four faces of the i-th family sit at FL_FREE_FONT + 4 * (i - 1) + 0 .. 3
FacesRegistered ==
  \A i \in 1 .. Len(browser.families) : \A k \in 1 .. 4 :
    fl_fonts[FL_FREE_FONT + 4 * (i - 1) + (k - 1)] = <<Styles[k], browser.families[i]>>

\* C20: when the browser exposes queryLocalFonts and the local-fonts
\* permission is granted or prompt, set_fonts registers a regular, bold,
\* italic and bold-italic face for every family returned and returns
\* FL_FREE_FONT plus four times the number of families.
C20_SetFontsEnumerates ==
  (LocalFontsAllowed /\ fontOp.op # "none") =>
    /\ fontOp.ret = FL_FREE_FONT + 4 * Len(browser.families)
    /\ FacesRegistered


(***************************************************************************)
(* Claims about the image surface                                          *)
(***************************************************************************)
\* C21: on an image surface untranslate() undoes translate(x, y): after it
\* the offscreen context's transform equals the transform in effect
\* immediately before the translate, whatever that was (one set by scale()
\* or by an enclosing translate included).
C21_UntranslateUndoesTranslate ==
  (lastOp = "untranslate") => ctxt.state.ctm = surface.before


(***************************************************************************)
(* Claims about the canvas clip region                                     *)
(***************************************************************************)
\* the region push_clip hands to ctx.rect for the entry e
CanvasCellsOf(e) == Cells(2 * e.x - 1, 2 * e.y - 1, 2 * e.w, 2 * e.h)

\* C22: the canvas's effective clip region always agrees with the driver's
\* clip stack: it is the rectangle on top of the stack when the top is
\* rectangular, and the whole canvas when the stack is empty or its top was
\* pushed by push_no_clip, after any sequence of push_clip, push_no_clip,
\* pop_clip and rect() calls.
C22_CanvasClipFollowsStack ==
  IF TopIsRect
    THEN /\ ~ctxt.state.clip.all
         /\ ctxt.state.clip.cells = CanvasCellsOf(emclip_[Len(emclip_)])
    ELSE ctxt.state.clip.all

====
